---- MODULE Spec2Model ----
(***************************************************************************)
(* Model of the storefront front end (frontend/src/App.js): the Cart Store *)
(* (CartProvider), the Auth Session Manager (AuthProvider), the view       *)
(* selection of App, and the Cart and Orders screens' backend calls.       *)
(*                                                                         *)
(* Four specifications are given, each holding constant the state of the   *)
(* components it does not drive.  SpecCart drives the Cart Store through   *)
(* its exposed operations with arbitrary integer quantity arguments and    *)
(* simulated restarts.  Spec drives the cart, checkout and orders screens  *)
(* through the events they offer (clicks, navigation, completed requests)  *)
(* on a page loaded without a URL fragment.  SpecNav drives the Auth       *)
(* Session Manager (login redirect, callback exchange, logout), the view   *)
(* selection and the Header.  SpecProducts drives the Products screen.     *)
(***************************************************************************)
EXTENDS Integers, Sequences, FiniteSets, TLC

VARIABLES
    cart,          \* CartProvider state `cart`: sequence of {product, quantity}
    cartCount,     \* CartProvider state `cartCount`
    localStorage,  \* persistent key-value store: keys "cart" and "session_token"
    mounted,       \* "mounted", or "crashed" once an effect has thrown
    lastCall,      \* the last Cart Store operation invoked, with its arguments
    user,          \* AuthProvider state `user`
    loading,       \* AuthProvider state `loading`
    profileFetch,  \* the startup GET /api/auth/profile: its progress and outcome
    currentView,   \* App state `currentView`
    orderPosts,    \* POST /api/orders requests in flight (their orderData)
    requests,      \* every orders request issued, with the user seen at its issue
    lastAlert,     \* the text of the last alert() shown
    hash,          \* window.location.hash of the loaded page
    sessionPosts,  \* POST /api/auth/session requests in flight
    exchangeIssued, \* whether this page has issued a session exchange
    headerView,    \* Header state `currentView`
    searchTerm,    \* Products state: the filter setting (search, category, price)
    productFetches, \* GET /api/products requests in flight (their filter)
    products,      \* Products state `products`: the list displayed
    productsLoading \* Products state `loading`

vars == <<cart, cartCount, localStorage, mounted, lastCall, user, loading,
          profileFetch, currentView, orderPosts, requests, lastAlert,
          hash, sessionPosts, exchangeIssued, headerView,
          searchTerm, productFetches, products, productsLoading>>

cartVars == <<cart, cartCount, localStorage, mounted, lastCall>>
authVars == <<user, loading, profileFetch>>
sessionVars == <<hash, sessionPosts, exchangeIssued>>
productVars == <<searchTerm, productFetches, products, productsLoading>>
screenVars  == <<sessionVars, headerView, productVars>>
appVars  == <<currentView, orderPosts, requests, lastAlert, screenVars>>

----------------------------------------------------------------------------
(* Bounds of the model *)

\* largest absolute line-item quantity the model lets a cart hold
MaxQty == 5
\* largest absolute quantity argument passed to addToCart / updateQuantity
MaxArg == 3
\* largest number of line items the model lets a cart hold
MaxLen == 3
\* largest line-item quantity reached through the screens' buttons (Spec)
MaxUiQty == 2
\* largest number of order submissions in flight at once (Spec)
MaxInFlight == 1

\* largest number of session exchanges in flight at once (SpecNav)
MaxExchanges == 1
\* largest number of product fetches in flight at once (SpecProducts)
MaxFetches == 3

ProductIds == {"p1", "p2"}
Prices     == {10, 20}
\* product snapshots as the backend may supply them: the same identifier can
\* come back with a different price on a later fetch
Products   == [id : ProductIds, price : Prices]
QtyArgs    == (0 - MaxArg) .. MaxArg

----------------------------------------------------------------------------
(* Persistent key-value store and the serialized form of the cart *)

\* a value of the store: getItem returns null for a missing key
NULL == [present |-> FALSE, text |-> <<>>]
Stored(text) == [present |-> TRUE, text |-> text]

\* the characters of a serialized value, grouped into lexical tokens
Punct(c) == [k |-> c,     s |-> "", n |-> 0]
Str(s)   == [k |-> "str", s |-> s,  n |-> 0]
Num(n)   == [k |-> "num", s |-> "", n |-> n]

getItem(store, key) == store[key]
setItem(store, key, text) == [store EXCEPT ![key] = Stored(text)]
removeItem(store, key) == [store EXCEPT ![key] = NULL]

\* a string is truthy unless it is null or empty
Truthy(v) == v.present /\ v.text # <<>>

RECURSIVE StringifyItems(_)
StringifyItems(items) ==
    IF items = <<>> THEN <<>>
    ELSE <<Punct("{"), Str(Head(items).product.id), Num(Head(items).product.price),
           Num(Head(items).quantity), Punct("}")>> \o StringifyItems(Tail(items))

\* JSON.stringify of a cart
JSONstringify(items) == <<Punct("[")>> \o StringifyItems(items) \o <<Punct("]")>>

\* one serialized line item starts at position i of text
ItemAt(text, i) ==
    /\ i + 4 <= Len(text)
    /\ text[i].k = "{"
    /\ text[i + 1].k = "str"
    /\ text[i + 2].k = "num"
    /\ text[i + 3].k = "num"
    /\ text[i + 4].k = "}"

RECURSIVE ParseItems(_, _, _)
ParseItems(text, i, acc) ==
    IF i = Len(text) /\ text[i].k = "]"
    THEN [kind |-> "array", items |-> acc]
    ELSE IF ItemAt(text, i)
    THEN ParseItems(text, i + 5,
                    Append(acc, [product  |-> [id |-> text[i + 1].s, price |-> text[i + 2].n],
                                 quantity |-> text[i + 3].n]))
    ELSE [kind |-> "SyntaxError", items |-> <<>>]

\* JSON.parse: an array of line items, the value null, or a thrown SyntaxError
JSONparse(text) ==
    IF text = <<Punct("null")>> THEN [kind |-> "null", items |-> <<>>]
    ELSE IF Len(text) >= 2 /\ text[1].k = "["
    THEN ParseItems(text, 2, <<>>)
    ELSE [kind |-> "SyntaxError", items |-> <<>>]

----------------------------------------------------------------------------
(* Cart Store: pure parts *)

HasItem(c, productId) == \E i \in 1 .. Len(c) : c[i].product.id = productId

\* a count of the line items, not of their quantities
CountLineItems(c) == Len(c)

\* newCart.reduce((sum, item) => sum + item.quantity, 0)
RECURSIVE SumQuantity(_)
SumQuantity(c) == IF c = <<>> THEN 0 ELSE SumQuantity(SubSeq(c, 1, Len(c) - 1)) + c[Len(c)].quantity

\* cart.reduce((sum, item) => sum + item.product.price * item.quantity, 0)
RECURSIVE TotalOf(_)
TotalOf(c) ==
    IF c = <<>> THEN 0
    ELSE TotalOf(SubSeq(c, 1, Len(c) - 1)) + c[Len(c)].product.price * c[Len(c)].quantity

getTotal == TotalOf(cart)

\* addToCart without the lookup of an existing line item
AddedCartAlwaysAppend(c, product, quantity) ==
    Append(c, [product |-> product, quantity |-> quantity])

\* addToCart that sets the quantity of an existing line item instead of adding to it
AddedCartOverwrite(c, product, quantity) ==
    IF HasItem(c, product.id)
    THEN [i \in 1 .. Len(c) |->
            IF c[i].product.id = product.id
            THEN [c[i] EXCEPT !.quantity = quantity]
            ELSE c[i]]
    ELSE Append(c, [product |-> product, quantity |-> quantity])

\* addToCart that replaces the product snapshot of an existing line item
AddedCartRefreshSnapshot(c, product, quantity) ==
    IF HasItem(c, product.id)
    THEN [i \in 1 .. Len(c) |->
            IF c[i].product.id = product.id
            THEN [product |-> product, quantity |-> c[i].quantity + quantity]
            ELSE c[i]]
    ELSE Append(c, [product |-> product, quantity |-> quantity])

\* the newCart of addToCart
AddedCart(c, product, quantity) ==
    IF HasItem(c, product.id)
    THEN [i \in 1 .. Len(c) |->
            IF c[i].product.id = product.id
            THEN [c[i] EXCEPT !.quantity = c[i].quantity + quantity]
            ELSE c[i]]
    ELSE Append(c, [product |-> product, quantity |-> quantity])

\* the newCart of removeFromCart
RECURSIVE RemovedCart(_, _)
RemovedCart(c, productId) ==
    IF c = <<>> THEN <<>>
    ELSE IF Head(c).product.id # productId
    THEN <<Head(c)>> \o RemovedCart(Tail(c), productId)
    ELSE RemovedCart(Tail(c), productId)

\* the newCart of updateQuantity, for a quantity above 0
UpdatedCart(c, productId, quantity) ==
    [i \in 1 .. Len(c) |->
        IF c[i].product.id = productId
        THEN [c[i] EXCEPT !.quantity = quantity]
        ELSE c[i]]

\* the model keeps carts within its bounds
WithinBounds(c) ==
    /\ Len(c) <= MaxLen
    /\ \A i \in 1 .. Len(c) : c[i].quantity \in (0 - MaxQty) .. MaxQty

Call(op, id, price, quantity) == [op |-> op, id |-> id, price |-> price, quantity |-> quantity]
NoCall == Call("none", "", 0, 0)

----------------------------------------------------------------------------
(* Cart Store: construction and operations *)

\* the hydration effect of CartProvider, run on the value read from storage:
\* the store's state after it, or a thrown error
Hydrated(savedCart) ==
    IF ~Truthy(savedCart)
    THEN [threw |-> FALSE, cart |-> <<>>, cartCount |-> 0]
    ELSE LET parsedCart == JSONparse(savedCart.text)
         IN  IF parsedCart.kind = "array"
             THEN [threw |-> FALSE, cart |-> parsedCart.items,
                   cartCount |-> SumQuantity(parsedCart.items)]
             \* JSON.parse throws, or null has no reduce
             ELSE [threw |-> TRUE, cart |-> <<>>, cartCount |-> 0]

\* a mutation that forgets to write the cart to storage
CommitWithoutPersist(newCart) ==
    /\ cart' = newCart
    /\ cartCount' = SumQuantity(newCart)
    /\ UNCHANGED localStorage

\* the three state changes shared by addToCart, removeFromCart, updateQuantity
Commit(newCart) ==
    /\ cart' = newCart
    /\ cartCount' = SumQuantity(newCart)
    /\ localStorage' = setItem(localStorage, "cart", JSONstringify(newCart))

addToCart(product, quantity) ==
    /\ mounted = "mounted"
    /\ WithinBounds(AddedCart(cart, product, quantity))
    /\ Commit(AddedCart(cart, product, quantity))
    /\ lastCall' = Call("addToCart", product.id, product.price, quantity)
    /\ UNCHANGED mounted

removeFromCart(productId) ==
    /\ mounted = "mounted"
    /\ Commit(RemovedCart(cart, productId))
    /\ lastCall' = Call("removeFromCart", productId, 0, 0)
    /\ UNCHANGED mounted

\* updateQuantity that removes only below 0
updateQuantityBelowZero(productId, quantity) ==
    /\ mounted = "mounted"
    /\ quantity <= MaxQty
    /\ IF quantity < 0
       THEN Commit(RemovedCart(cart, productId))
       ELSE Commit(UpdatedCart(cart, productId, quantity))
    /\ lastCall' = Call("updateQuantity", productId, 0, quantity)
    /\ UNCHANGED mounted

updateQuantity(productId, quantity) ==
    /\ mounted = "mounted"
    /\ quantity <= MaxQty
    /\ IF quantity <= 0
       THEN Commit(RemovedCart(cart, productId))
       ELSE Commit(UpdatedCart(cart, productId, quantity))
    /\ lastCall' = Call("updateQuantity", productId, 0, quantity)
    /\ UNCHANGED mounted

clearCart ==
    /\ mounted = "mounted"
    /\ cart' = <<>>
    /\ cartCount' = 0
    /\ localStorage' = removeItem(localStorage, "cart")
    /\ lastCall' = Call("clearCart", "", 0, 0)
    /\ UNCHANGED mounted

----------------------------------------------------------------------------
(* Auth Session Manager *)

NoUser    == "null"
\* a User as GET /api/auth/profile supplies it
TheUser   == "u1"
\* the body of a 2xx response that is not a User (an empty object, an error page)
Malformed == "malformed"

\* how the profile request can end: a User, a network failure, a rejected
\* credential (axios throws on both), or a 2xx response with a malformed body
ProfileOutcomes == {"ok", "network", "rejected", "malformed"}

\* the mount effect of AuthProvider, run on the token read from storage
AuthOnLoad(token) ==
    IF Truthy(token)
    THEN [user |-> NoUser, loading |-> TRUE,  profileFetch |-> "pending"]
    ELSE [user |-> NoUser, loading |-> FALSE, profileFetch |-> "none"]

\* a component that has been unmounted ignores setState
SetState(new, old) == IF mounted = "mounted" THEN new ELSE old

\* what the Orders screen's effect on [user] issues when it runs with user u
OrdersEffect(u) ==
    IF u # NoUser THEN {[endpoint |-> "GET /api/orders", user |-> u]} ELSE {}

\* renderView without its case for orders
RenderedScreenNoOrders(view) ==
    IF view \in {"home", "products", "cart", "profile"} THEN view ELSE "home"

RenderedScreen(view) ==
    IF view \in {"home", "products", "cart", "orders", "profile"} THEN view ELSE "home"

\* the screen the compositor shows; nothing is shown once the tree is unmounted
Screen == IF mounted = "mounted" THEN RenderedScreen(currentView) ELSE "none"

\* the rest of fetchProfile, from the point its request completes
fetchProfile(outcome) ==
    /\ profileFetch = "pending"
    /\ profileFetch' = outcome
    /\ user' = SetState(CASE outcome = "ok"        -> TheUser
                          [] outcome = "malformed" -> Malformed
                          [] OTHER                 -> user, user)
    /\ localStorage' = IF outcome \in {"network", "rejected"}
                       THEN removeItem(localStorage, "session_token")
                       ELSE localStorage
    /\ loading' = SetState(FALSE, loading)
    \* the Orders screen, if shown, re-runs its effect when user changes
    /\ requests' = IF Screen = "orders" /\ user' # user
                   THEN requests \cup OrdersEffect(user')
                   ELSE requests
    /\ UNCHANGED <<cart, cartCount, mounted, lastCall, currentView, orderPosts, lastAlert,
                   screenVars>>

\* logout(), as the AuthContext exposes it
logout ==
    /\ mounted = "mounted"
    /\ localStorage' = removeItem(localStorage, "session_token")
    /\ user' = NoUser
    /\ UNCHANGED <<cart, cartCount, mounted, lastCall, loading, profileFetch, appVars>>

\* the Logout button of the Header, shown while user is set
ClickLogout ==
    /\ user # NoUser
    /\ logout

----------------------------------------------------------------------------
(* View selection and the screens' operations *)

Views == {"home", "products", "cart", "orders", "profile", "bogus"}

RemoveAt(s, i) == SubSeq(s, 1, i - 1) \o SubSeq(s, i + 1, Len(s))

\* the URL fragment the hosted login page returns with, and no fragment
CallbackHash == "#session_id=s1"
NoHash == ""
\* hash && hash.includes('session_id=')
HasSessionId(h) == h = CallbackHash

\* the filter settings of the Products screen; "" is the initial, empty one
Filters == {"", "shoes", "hats"}
\* useState([]) of Products, and the list the backend answers for a filter
NoProducts == [loaded |-> FALSE, filter |-> ""]
ListFor(filter) == [loaded |-> TRUE, filter |-> filter]

\* the mount effect of Profile: the callback handling
ProfileMounts ==
    IF HasSessionId(hash)
    THEN /\ sessionPosts < MaxExchanges
         /\ sessionPosts' = sessionPosts + 1
         /\ exchangeIssued' = TRUE
         /\ UNCHANGED hash
    ELSE UNCHANGED sessionVars

\* Products appears: its useState initial values and its effect's first fetch
ProductsMounts ==
    /\ searchTerm' = ""
    /\ products' = NoProducts
    /\ productsLoading' = TRUE
    /\ productFetches' = <<"">>

\* Products disappears: its state is gone and pending responses are discarded
ProductsUnmounts ==
    /\ searchTerm' = ""
    /\ products' = NoProducts
    /\ productsLoading' = TRUE
    /\ productFetches' = <<>>

\* window.navigateTo(view); a screen that newly appears runs its mount effects
navigateTo(view) ==
    /\ mounted = "mounted"
    /\ currentView' = view
    /\ requests' = IF RenderedScreen(view) = "orders" /\ Screen # "orders"
                   THEN requests \cup OrdersEffect(user)
                   ELSE requests
    /\ IF RenderedScreen(view) = "profile" /\ Screen # "profile"
       THEN ProfileMounts
       ELSE UNCHANGED sessionVars
    /\ IF RenderedScreen(view) = "products" /\ Screen # "products"
       THEN ProductsMounts
       ELSE IF RenderedScreen(view) # "products" /\ Screen = "products"
       THEN ProductsUnmounts
       ELSE UNCHANGED productVars
    /\ UNCHANGED <<cartVars, authVars, orderPosts, lastAlert, headerView>>

\* a change of the search term, category or price range on the Products
\* screen: the effect on [searchTerm, selectedCategory, priceRange] fetches again
setSearchTerm(filter) ==
    /\ Screen = "products"
    /\ filter # searchTerm
    /\ Len(productFetches) < MaxFetches
    /\ searchTerm' = filter
    /\ productFetches' = Append(productFetches, filter)
    /\ UNCHANGED <<products, productsLoading>>
    /\ UNCHANGED <<cartVars, authVars, currentView, orderPosts, requests, lastAlert,
                   sessionVars, headerView>>

\* fetchProducts that applies a response only when it answers the current filter
fetchProductsLatestOnly(i, ok) ==
    /\ Screen = "products"
    /\ i \in 1 .. Len(productFetches)
    /\ productFetches' = RemoveAt(productFetches, i)
    /\ products' = IF ok /\ productFetches[i] = searchTerm
                   THEN ListFor(productFetches[i]) ELSE products
    /\ productsLoading' = FALSE
    /\ UNCHANGED searchTerm
    /\ UNCHANGED <<cartVars, authVars, currentView, orderPosts, requests, lastAlert,
                   sessionVars, headerView>>

\* the rest of fetchProducts, once product request i has been answered
fetchProducts(i, ok) ==
    /\ Screen = "products"
    /\ i \in 1 .. Len(productFetches)
    /\ productFetches' = RemoveAt(productFetches, i)
    /\ products' = IF ok THEN ListFor(productFetches[i]) ELSE products
    /\ productsLoading' = FALSE
    /\ UNCHANGED searchTerm
    /\ UNCHANGED <<cartVars, authVars, currentView, orderPosts, requests, lastAlert,
                   sessionVars, headerView>>

\* the buttons of the Header that set its currentView; Orders is shown while
\* user is set
HeaderButtons == {"home", "products", "categories", "cart", "orders"}

HeaderClick(view) ==
    /\ mounted = "mounted"
    /\ view \in HeaderButtons
    /\ view = "orders" => user # NoUser
    /\ headerView' = view
    /\ UNCHANGED <<cartVars, authVars, currentView, orderPosts, requests, lastAlert,
                   sessionVars, productVars>>

\* the Add to Cart button of a product card (Home and Products screens)
ClickAddToCart(product) ==
    /\ Screen \in {"home", "products"}
    /\ \A i \in 1 .. Len(cart) :
          cart[i].product.id = product.id => cart[i].quantity < MaxUiQty
    /\ addToCart(product, 1)
    /\ UNCHANGED <<authVars, appVars>>

\* the - and + buttons of line item i on the Cart screen
ClickMinus(i) ==
    /\ Screen = "cart"
    /\ updateQuantity(cart[i].product.id, cart[i].quantity - 1)
    /\ UNCHANGED <<authVars, appVars>>

ClickPlus(i) ==
    /\ Screen = "cart"
    /\ cart[i].quantity < MaxUiQty
    /\ updateQuantity(cart[i].product.id, cart[i].quantity + 1)
    /\ UNCHANGED <<authVars, appVars>>

ClickRemove(i) ==
    /\ Screen = "cart"
    /\ removeFromCart(cart[i].product.id)
    /\ UNCHANGED <<authVars, appVars>>

\* the Clear Cart button, shown while the cart is not empty
ClickClearCart ==
    /\ Screen = "cart"
    /\ cart # <<>>
    /\ clearCart
    /\ UNCHANGED <<authVars, appVars>>

OrderData(c) ==
    [items |-> [i \in 1 .. Len(c) |->
                  [product_id |-> c[i].product.id, quantity |-> c[i].quantity,
                   price |-> c[i].product.price]],
     total |-> TotalOf(c)]

\* handleCheckout without its check of user
handleCheckoutUnchecked ==
    /\ Screen = "cart"
    /\ cart # <<>>
    /\ Len(orderPosts) < MaxInFlight
    /\ orderPosts' = Append(orderPosts, OrderData(cart))
    /\ requests' = requests \cup {[endpoint |-> "POST /api/orders", user |-> user]}
    /\ UNCHANGED lastAlert
    /\ UNCHANGED <<cartVars, authVars, currentView, screenVars>>

\* the Checkout button, up to the point the order request is sent
handleCheckout ==
    /\ Screen = "cart"
    /\ cart # <<>>
    /\ IF user = NoUser
       THEN /\ lastAlert' = "Please login to checkout"
            /\ UNCHANGED <<orderPosts, requests>>
       ELSE /\ Len(orderPosts) < MaxInFlight
            /\ orderPosts' = Append(orderPosts, OrderData(cart))
            /\ requests' = requests \cup {[endpoint |-> "POST /api/orders", user |-> user]}
            /\ UNCHANGED lastAlert
    /\ UNCHANGED <<cartVars, authVars, currentView, screenVars>>

\* handleCheckout that clears the cart whatever the answer
OrderResponseAlwaysClears(i, ok) ==
    /\ mounted = "mounted"
    /\ i \in 1 .. Len(orderPosts)
    /\ orderPosts' = RemoveAt(orderPosts, i)
    /\ clearCart
    /\ lastAlert' = IF ok THEN "Order placed successfully!"
                    ELSE "Error placing order. Please try again."
    /\ UNCHANGED <<authVars, currentView, requests, screenVars>>

\* the rest of handleCheckout, once order request i has been answered
OrderResponse(i, ok) ==
    /\ mounted = "mounted"
    /\ i \in 1 .. Len(orderPosts)
    /\ orderPosts' = RemoveAt(orderPosts, i)
    /\ IF ok
       THEN /\ clearCart
            /\ lastAlert' = "Order placed successfully!"
       ELSE /\ lastAlert' = "Error placing order. Please try again."
            /\ UNCHANGED cartVars
    /\ UNCHANGED <<authVars, currentView, requests, screenVars>>

----------------------------------------------------------------------------
(* Page load *)

\* serialized carts the storage may hold when the page loads
SavedCart1 == <<[product |-> [id |-> "p1", price |-> 10], quantity |-> 1]>>
SavedCart2 == <<[product |-> [id |-> "p2", price |-> 10], quantity |-> 2],
                [product |-> [id |-> "p1", price |-> 20], quantity |-> 1]>>

InitialCarts ==
    { NULL,                                        \* no cart key
      Stored(<<>>),                                \* the empty string
      Stored(JSONstringify(<<>>)),
      Stored(JSONstringify(SavedCart1)),
      Stored(JSONstringify(SavedCart2)),
      Stored(SubSeq(JSONstringify(SavedCart1), 1, 3)),   \* truncated text
      Stored(<<Punct("null")>>) }                  \* valid JSON, not an array

\* the cart values among them that the pages of Spec are loaded over
AppInitialCarts ==
    { NULL,
      Stored(JSONstringify(SavedCart1)),
      Stored(SubSeq(JSONstringify(SavedCart1), 1, 3)) }

InitialTokens == { NULL, Stored(<<Str("t1")>>) }

\* the state of a freshly loaded page over the given storage: the useState
\* initial values followed by the mount effects of CartProvider and AuthProvider
Loaded(store) ==
    LET h == Hydrated(getItem(store, "cart"))
        a == AuthOnLoad(getItem(store, "session_token"))
    IN  [cart |-> h.cart, cartCount |-> h.cartCount,
         mounted |-> IF h.threw THEN "crashed" ELSE "mounted",
         user |-> a.user,
         \* the effect that throws unmounts the tree: setLoading is not applied
         loading |-> a.loading,
         profileFetch |-> a.profileFetch]

\* the page loaded over the given storage with the given URL fragment
InitWith(store, fragment) ==
    /\ localStorage = store
    /\ cart = Loaded(store).cart
    /\ cartCount = Loaded(store).cartCount
    /\ mounted = Loaded(store).mounted
    /\ lastCall = NoCall
    /\ user = Loaded(store).user
    /\ loading = Loaded(store).loading
    /\ profileFetch = Loaded(store).profileFetch
    /\ currentView = "home"
    /\ orderPosts = <<>>
    /\ requests = {}
    /\ lastAlert = ""
    /\ hash = fragment
    /\ sessionPosts = 0
    /\ exchangeIssued = FALSE
    /\ headerView = "home"
    /\ searchTerm = ""
    /\ productFetches = <<>>
    /\ products = NoProducts
    /\ productsLoading = TRUE

InitOver(store) == InitWith(store, NoHash)

\* the browser leaves the page and loads the application again over the given
\* storage with the given fragment: the requests of the old page are dropped
PageLoad(store, fragment) ==
    /\ localStorage' = store
    /\ cart' = Loaded(store).cart
    /\ cartCount' = Loaded(store).cartCount
    /\ mounted' = Loaded(store).mounted
    /\ lastCall' = NoCall
    /\ user' = Loaded(store).user
    /\ loading' = Loaded(store).loading
    /\ profileFetch' = Loaded(store).profileFetch
    /\ currentView' = "home"
    /\ orderPosts' = <<>>
    /\ UNCHANGED requests
    /\ lastAlert' = ""
    /\ hash' = fragment
    /\ sessionPosts' = 0
    /\ exchangeIssued' = FALSE
    /\ headerView' = "home"
    /\ searchTerm' = ""
    /\ productFetches' = <<>>
    /\ products' = NoProducts
    /\ productsLoading' = TRUE

\* the Login button of the Header, shown while no user is set: the browser
\* goes to the hosted login page, which returns it to /profile with the
\* session identifier in the fragment
login ==
    /\ mounted = "mounted"
    /\ user = NoUser
    /\ PageLoad(localStorage, CallbackHash)

\* the session token POST /api/auth/session answers with
NewToken == <<Str("t2")>>

\* the rest of handleAuthCallback, once the exchange has been answered
handleAuthCallback(ok) ==
    /\ sessionPosts > 0
    /\ IF ok
       THEN \* the token is stored, then window.location.href = '/'
            PageLoad(setItem(localStorage, "session_token", NewToken), NoHash)
       ELSE /\ sessionPosts' = sessionPosts - 1
            /\ lastAlert' = "Authentication failed. Please try again."
            /\ UNCHANGED <<cartVars, authVars, currentView, orderPosts, requests,
                           hash, exchangeIssued, headerView, productVars>>

Init ==
    \E c \in AppInitialCarts, t \in InitialTokens :
        InitOver([k \in {"cart", "session_token"} |->
                    IF k = "cart" THEN c ELSE t])

InitCart ==
    \E c \in InitialCarts :
        InitOver([k \in {"cart", "session_token"} |-> IF k = "cart" THEN c ELSE NULL])

\* a simulated restart of the Cart Store: a fresh store hydrated from storage
Restart ==
    /\ cart' = Hydrated(getItem(localStorage, "cart")).cart
    /\ cartCount' = Hydrated(getItem(localStorage, "cart")).cartCount
    /\ mounted' = IF Hydrated(getItem(localStorage, "cart")).threw
                  THEN "crashed" ELSE "mounted"
    /\ lastCall' = Call("restart", "", 0, 0)
    /\ UNCHANGED <<localStorage, authVars, appVars>>

----------------------------------------------------------------------------
(* Specifications *)

CallAddToCart ==
    \E product \in Products, quantity \in QtyArgs :
        addToCart(product, quantity) /\ UNCHANGED <<authVars, appVars>>

CallRemoveFromCart ==
    \E productId \in ProductIds :
        removeFromCart(productId) /\ UNCHANGED <<authVars, appVars>>

CallUpdateQuantity ==
    \E productId \in ProductIds, quantity \in QtyArgs :
        updateQuantity(productId, quantity) /\ UNCHANGED <<authVars, appVars>>

CallClearCart == clearCart /\ UNCHANGED <<authVars, appVars>>

NextCart ==
    \/ CallAddToCart
    \/ CallRemoveFromCart
    \/ CallUpdateQuantity
    \/ CallClearCart
    \/ Restart

SpecCart == InitCart /\ [][NextCart]_vars

\* the products the screens of Spec list: one identifier, which the backend
\* may supply at either price
UiProducts == {p \in Products : p.id = "p1"}

AddToCartClicked == \E product \in UiProducts : ClickAddToCart(product)
MinusClicked == \E i \in 1 .. Len(cart) : ClickMinus(i)
PlusClicked == \E i \in 1 .. Len(cart) : ClickPlus(i)
RemoveClicked == \E i \in 1 .. Len(cart) : ClickRemove(i)
ProfileResponse == \E outcome \in ProfileOutcomes : fetchProfile(outcome)
Navigate == \E view \in Views : navigateTo(view)
OrderResponded == \E i \in 1 .. MaxInFlight, ok \in BOOLEAN : OrderResponse(i, ok)
ProductsResponse == \E i \in 1 .. MaxFetches, ok \in BOOLEAN : fetchProducts(i, ok)

Next ==
    \/ ProfileResponse
    \/ ClickLogout
    \/ Navigate
    \/ AddToCartClicked
    \/ MinusClicked
    \/ PlusClicked
    \/ RemoveClicked
    \/ ClickClearCart
    \/ handleCheckout
    \/ OrderResponded
    \/ ProductsResponse

Spec == Init /\ [][Next]_vars

\* SpecNav: pages loaded with or without the callback fragment, no cart stored
InitNav ==
    \E t \in InitialTokens, fragment \in {NoHash, CallbackHash} :
        InitWith([k \in {"cart", "session_token"} |-> IF k = "cart" THEN NULL ELSE t],
                 fragment)

\* logout() called by any consumer of the AuthContext, in any state
CallLogout == logout
AuthCallbackResponse == \E ok \in BOOLEAN : handleAuthCallback(ok)
HeaderClicked == \E view \in HeaderButtons : HeaderClick(view)

NextNav ==
    \/ ProfileResponse
    \/ CallLogout
    \/ login
    \/ AuthCallbackResponse
    \/ Navigate
    \/ HeaderClicked
    \/ ProductsResponse

SpecNav == InitNav /\ [][NextNav]_vars

\* SpecProducts: the Products screen, on a page with nothing stored
InitProducts ==
    InitOver([k \in {"cart", "session_token"} |-> NULL])

FilterChanged == \E filter \in Filters : setSearchTerm(filter)

NextProducts ==
    \/ Navigate
    \/ FilterChanged
    \/ ProductsResponse

SpecProducts == InitProducts /\ [][NextProducts]_vars

----------------------------------------------------------------------------
(* Properties of the Cart Store, checked under SpecCart *)

\* the sum of the quantities of the line items of c
RECURSIVE QuantitySum(_)
QuantitySum(c) == IF c = <<>> THEN 0 ELSE Head(c).quantity + QuantitySum(Tail(c))

\* the sum of price times quantity over the line items of c
RECURSIVE PriceSum(_)
PriceSum(c) ==
    IF c = <<>> THEN 0
    ELSE Head(c).product.price * Head(c).quantity + PriceSum(Tail(c))

\* c with every line item for productId left out, the others in their order
RECURSIVE Without(_, _)
Without(c, productId) ==
    IF c = <<>> THEN <<>>
    ELSE IF c[Len(c)].product.id = productId
    THEN Without(SubSeq(c, 1, Len(c) - 1), productId)
    ELSE Append(Without(SubSeq(c, 1, Len(c) - 1), productId), c[Len(c)])

\* the cart that storage holds, as a line-item sequence (empty when there is none)
PersistedItems ==
    IF getItem(localStorage, "cart").present
    THEN JSONparse(getItem(localStorage, "cart").text).items
    ELSE <<>>

\* C1: in every reachable state of the Cart Store, after hydration and after
\* each addToCart, removeFromCart, updateQuantity and clearCart, cartCount
\* equals the sum of the quantities of the line items in the cart.
C1_CountIsSumOfQuantities == cartCount = QuantitySum(cart)

\* a cart of two line items whose count of 5 differs from the number of items,
\* reached by an updateQuantity call
C1_Witness ==
    /\ lastCall.op = "updateQuantity"
    /\ Len(cart) = 2
    /\ cartCount = 5

\* C2: after any sequence of addToCart, removeFromCart, updateQuantity and
\* clearCart calls, no two line items share a product identifier.
C2_UniqueProductIds ==
    \A i, j \in 1 .. Len(cart) :
        cart[i].product.id = cart[j].product.id => i = j

\* addToCart was just called for a product that a two-item cart already held
C2_Witness ==
    /\ lastCall.op = "addToCart"
    /\ Len(cart) = 2
    /\ cart[1].product.id = lastCall.id
    /\ cart[1].quantity > lastCall.quantity
    /\ lastCall.quantity > 0

\* C3: for every sequence of calls with any integer quantity arguments, the
\* cart written to persistent storage never holds a line item whose quantity
\* is less than or equal to 0.
C3_NoNonPositiveQuantityPersisted ==
    \A i \in 1 .. Len(PersistedItems) : PersistedItems[i].quantity > 0

\* the step records a call of op with these arguments (every operation records
\* its call, so only steps of that operation pass)
IsCall(op, id, price, quantity) == lastCall' = Call(op, id, price, quantity)

\* what the claim says addToCart(product, quantity) makes of cart c
AddToCartPost(c, c2, product, quantity) ==
    IF \E i \in 1 .. Len(c) : c[i].product.id = product.id
    THEN /\ Len(c2) = Len(c)
         /\ \A i \in 1 .. Len(c) :
               IF c[i].product.id = product.id
               THEN /\ c2[i].product = c[i].product
                    /\ c2[i].quantity = c[i].quantity + quantity
               ELSE c2[i] = c[i]
    ELSE /\ Len(c2) = Len(c) + 1
         /\ SubSeq(c2, 1, Len(c)) = c
         /\ c2[Len(c2)] = [product |-> product, quantity |-> quantity]

\* C4: addToCart(product, quantity) adds quantity to the line item the cart
\* holds for product.id, which keeps its position while every other line item
\* is unchanged; otherwise it appends {product, quantity} at the end and the
\* existing line items keep their content and order.  Adding the same product
\* with quantity 2 and then 3 leaves exactly one line item, of quantity 5.
C4_AddToCartEffect ==
    [][\A product \in Products, quantity \in QtyArgs :
          (IsCall("addToCart", product.id, product.price, quantity) /\ addToCart(product, quantity)) =>
             /\ AddToCartPost(cart, cart', product, quantity)
             /\ (cart = <<[product |-> product, quantity |-> 2]>> /\ quantity = 3)
                   => cart' = <<[product |-> product, quantity |-> 5]>>]_vars

\* the state after adding p1 with quantity 3 to a cart that held p1 with quantity 2
C4_Witness ==
    /\ lastCall = Call("addToCart", "p1", 10, 3)
    /\ cart = <<[product |-> [id |-> "p1", price |-> 10], quantity |-> 5]>>

\* what the claim says updateQuantity(productId, quantity) makes of the store
UpdateQuantityPost(productId, quantity) ==
    IF quantity <= 0
    THEN \* exactly the cart, count and persisted value of removeFromCart
         /\ cart' = RemovedCart(cart, productId)
         /\ cart' = Without(cart, productId)
         /\ cartCount' = QuantitySum(Without(cart, productId))
         /\ localStorage' = setItem(localStorage, "cart", JSONstringify(Without(cart, productId)))
    ELSE /\ Len(cart') = Len(cart)
         /\ \A i \in 1 .. Len(cart) :
               IF cart[i].product.id = productId
               THEN /\ cart'[i].product = cart[i].product
                    /\ cart'[i].quantity = quantity
               ELSE cart'[i] = cart[i]
         /\ (~\E i \in 1 .. Len(cart) : cart[i].product.id = productId) => cart' = cart

\* C5: updateQuantity(productId, quantity) with quantity <= 0 gives exactly the
\* cart, count and persisted value of removeFromCart(productId); with quantity
\* above 0 it sets the matching line item's quantity to exactly quantity,
\* leaves its position and all other line items unchanged, and leaves the cart
\* unchanged when no line item matches.
C5_UpdateQuantityEffect ==
    [][\A productId \in ProductIds, quantity \in QtyArgs :
          (IsCall("updateQuantity", productId, 0, quantity) /\ updateQuantity(productId, quantity))
             => UpdateQuantityPost(productId, quantity)]_vars

\* updateQuantity(id, 0) has just removed one of two line items
C5_Witness ==
    /\ lastCall.op = "updateQuantity"
    /\ lastCall.quantity = 0
    /\ Len(cart) = 1
    /\ cart[1].product.id # lastCall.id
    /\ cart[1].quantity = 3

\* C6: getTotal() is the sum over the line items of the price captured in the
\* product snapshot when the item was first added times the current quantity:
\* a new line item takes the price of the product passed to addToCart, no later
\* step changes the price of a line item that stays in the cart, and a later
\* addToCart for the same identifier with another price changes the total by
\* the captured price times the added quantity.
C6_TotalUsesCapturedPrice ==
    /\ [](getTotal = PriceSum(cart))
    /\ [][/\ \A i \in 1 .. Len(cart), j \in 1 .. Len(cart') :
                cart[i].product.id = cart'[j].product.id
                   => cart'[j].product.price = cart[i].product.price
          /\ \A product \in Products, quantity \in QtyArgs :
                (IsCall("addToCart", product.id, product.price, quantity) /\ addToCart(product, quantity)) =>
                   IF \E j \in 1 .. Len(cart) : cart[j].product.id = product.id
                   THEN \A j \in 1 .. Len(cart) :
                           cart[j].product.id = product.id =>
                              getTotal' = getTotal + cart[j].product.price * quantity
                   ELSE /\ cart'[Len(cart')].product.price = product.price
                        /\ getTotal' = getTotal + product.price * quantity]_vars

\* addToCart was just called with a price other than the one the line item holds
C6_Witness ==
    /\ lastCall.op = "addToCart"
    /\ lastCall.quantity = 2
    /\ \E i \in 1 .. Len(cart) :
          /\ cart[i].product.id = lastCall.id
          /\ cart[i].product.price # lastCall.price
          /\ cart[i].quantity = 3
          /\ getTotal >= cart[i].product.price * 3

\* C7: after any sequence of cart operations a simulated restart reproduces
\* exactly the ordered line items that were in memory; after clearCart the
\* persisted cart key is absent and hydration yields the empty cart.
C7_PersistenceRoundTrip ==
    /\ [](mounted = "mounted" =>
             /\ ~Hydrated(getItem(localStorage, "cart")).threw
             /\ Hydrated(getItem(localStorage, "cart")).cart = cart)
    /\ [](lastCall.op = "clearCart" =>
             /\ ~getItem(localStorage, "cart").present
             /\ Hydrated(getItem(localStorage, "cart")).cart = <<>>)
    /\ [][(mounted = "mounted" /\ Restart) => (cart' = cart /\ mounted' = "mounted")]_vars

\* a restart has just reproduced a two-item cart that the operations built
C7_Witness ==
    /\ lastCall.op = "restart"
    /\ mounted = "mounted"
    /\ Len(cart) = 2
    /\ cart[1].product.id = "p1"
    /\ cart[1].quantity = 4
    /\ cart[2].quantity = 1

\* C8: when the persisted cart value is absent or cannot be parsed, the
\* construction of the Cart Store raises no error and the store starts with an
\* empty cart and a count of 0.  (A store whose construction threw accepts no
\* call, so storage still holds the value that was read.)
C8_HydrationFailsSoft ==
    (\/ ~getItem(localStorage, "cart").present
     \/ JSONparse(getItem(localStorage, "cart").text).kind = "SyntaxError")
       => (mounted = "mounted" /\ cart = <<>> /\ cartCount = 0)

----------------------------------------------------------------------------
(* Properties of the application, checked under Spec *)

\* C9: given a session token in storage at load, a profile fetch is issued, and
\* if that fetch fails in any way (network failure, rejected credential,
\* malformed response) the manager ends Unauthenticated (no user, resolving
\* finished) and the stored session token has been removed.
C9_FailedProfileFetchClearsSession ==
    (mounted = "mounted" /\ profileFetch \in {"network", "rejected", "malformed"})
       => /\ user = NoUser
          /\ loading = FALSE
          /\ ~getItem(localStorage, "session_token").present

\* C10: while no user is set, a checkout attempt issues no POST /api/orders and
\* leaves the cart and the persisted cart unchanged, and the Orders screen
\* issues no GET /api/orders: every orders request was issued with a user set.
C10_AuthenticationGating ==
    /\ [](\A r \in requests : r.user # NoUser)
    /\ [][(handleCheckout /\ user = NoUser) =>
             /\ cart' = cart
             /\ cartCount' = cartCount
             /\ localStorage' = localStorage
             /\ orderPosts' = orderPosts
             /\ requests' = requests]_vars
    /\ [][(user = NoUser /\ user' = NoUser) => requests' = requests]_vars

\* with no user set, a checkout was attempted on a cart that holds an item and
\* the Orders screen is now shown: no request has been issued
C10_Witness ==
    /\ user = NoUser
    /\ lastAlert = "Please login to checkout"
    /\ cart # <<>>
    /\ Screen = "orders"
    /\ requests = {}
    /\ orderPosts = <<>>

\* C11: when an authenticated checkout's order submission succeeds, the cart
\* becomes empty, the count 0 and the persisted cart key is removed; when it
\* fails, the step leaves the cart, the count and the persisted cart as they
\* were and issues no further request.
C11_CheckoutOutcome ==
    [][\A i \in 1 .. Len(orderPosts), ok \in BOOLEAN :
          (Len(orderPosts') < Len(orderPosts) /\ OrderResponse(i, ok)) =>
             IF ok
             THEN /\ cart' = <<>>
                  /\ cartCount' = 0
                  /\ ~getItem(localStorage', "cart").present
             ELSE /\ cart' = cart
                  /\ cartCount' = cartCount
                  /\ localStorage' = localStorage
                  /\ requests' = requests
                  /\ Len(orderPosts') = Len(orderPosts) - 1]_vars

\* an order submission has failed and the cart still holds its two units
C11_Witness ==
    /\ lastAlert = "Error placing order. Please try again."
    /\ orderPosts = <<>>
    /\ Len(cart) = 1
    /\ cartCount = 2
    /\ getItem(localStorage, "cart") = Stored(JSONstringify(cart))
    /\ \E r \in requests : r.endpoint = "POST /api/orders"

\* C16: whenever a successful checkout clears the cart, the line items and
\* quantities it discards are exactly those sent in the order submission: no
\* addToCart or updateQuantity made while the order POST was in flight is
\* wiped from the cart without having been included in an order.
C16_CheckoutDiscardsOnlyWhatWasOrdered ==
    [][\A i \in 1 .. Len(orderPosts) :
          (Len(orderPosts') < Len(orderPosts) /\ OrderResponse(i, TRUE))
             => OrderData(cart) = orderPosts[i]]_vars

----------------------------------------------------------------------------
(* Properties of the session, the view selection and the Header, checked   *)
(* under SpecNav                                                           *)

\* C12: whenever the application is loaded with a URL fragment containing
\* session_id=<id>, the session exchange POST /api/auth/session is issued
\* (and, when it succeeds, the returned token is persisted before the
\* application navigates back to its root).
C12_CallbackExchangeIssuedOnLoad ==
    (mounted = "mounted" /\ HasSessionId(hash)) => exchangeIssued

\* the screen the claim names for a view
ExpectedScreen(view) ==
    CASE view = "home"     -> "home"
      [] view = "products" -> "products"
      [] view = "cart"     -> "cart"
      [] view = "orders"   -> "orders"
      [] view = "profile"  -> "profile"
      [] OTHER             -> "home"

\* C13: after navigateTo(view) the compositor renders the screen named by view
\* when view is one of home, products, cart, orders, profile, and the Home
\* screen for every other value; the screen rendered when a page has loaded
\* is Home.
C13_RouterRendersSelectedScreen ==
    /\ Screen = "home"
    /\ [][/\ \A view \in Views :
                (currentView' = view /\ navigateTo(view)) => Screen' = ExpectedScreen(view)
          /\ hash' # hash => Screen' = "home"]_vars

\* navigateTo("orders") issued the orders request and navigateTo("bogus")
\* then fell back to Home
C13_Witness ==
    /\ currentView = "bogus"
    /\ Screen = "home"
    /\ \E r \in requests : r.endpoint = "GET /api/orders"

\* C15: in every reachable state, if a user is set then a session token is
\* present in persistent storage; in particular after logout(), called in
\* any state, the manager is not Authenticated without a stored token.
C15_AuthenticatedImpliesStoredToken ==
    (mounted = "mounted" /\ user # NoUser)
       => getItem(localStorage, "session_token").present

\* C17: the view selection is a single slot: the view the Header holds as
\* current equals the view the App compositor renders, and it is always one
\* of home, products, cart, orders, profile.
C17_SingleViewSlot ==
    mounted = "mounted" =>
       /\ headerView = RenderedScreen(currentView)
       /\ headerView \in {"home", "products", "cart", "orders", "profile"}

----------------------------------------------------------------------------
(* Properties of the Products screen, checked under SpecProducts *)

\* C14: each filter change issues a new fetch without cancelling the earlier
\* ones, and whichever response resolves is displayed, whatever the current
\* filter: the list displayed once all fetches have completed is that of the
\* response that resolved last, which may belong to an older filter setting.
C14_LastResolvedResponseWins ==
    [][/\ \A filter \in Filters :
             (searchTerm' = filter /\ setSearchTerm(filter))
                => /\ Len(productFetches') = Len(productFetches) + 1
                   /\ SubSeq(productFetches', 1, Len(productFetches)) = productFetches
                   /\ productFetches'[Len(productFetches')] = filter
       /\ \A i \in 1 .. Len(productFetches) :
             (Len(productFetches') < Len(productFetches) /\ fetchProducts(i, TRUE))
                => /\ products' = ListFor(productFetches[i])
                   /\ searchTerm' = searchTerm]_vars

\* every fetch has completed and the list displayed answers an older filter
\* setting than the current one
C14_Witness ==
    /\ Screen = "products"
    /\ productFetches = <<>>
    /\ products.loaded
    /\ products.filter # searchTerm
    /\ products.filter # ""

====
